---- MODULE Spec2Model ----
(***************************************************************************)
(* A model of HexGrid (src/hexgrid.py), the rules engine of a hexagonal    *)
(* minesweeper: board geometry, deferred mine placement, cascading reveal, *)
(* win/loss evaluation, and the mapping from screen pixels to tiles.       *)
(*                                                                         *)
(* The object's fields are the state variables.  Every public method is    *)
(* an operator from a board record to the SET of results it can produce    *)
(* (random.sample is the only source of nondeterminism), and every action  *)
(* applies one whole method call.  An exception that leaves a method ends  *)
(* the run: the source catches none.                                       *)
(*                                                                         *)
(* start_time (wall clock, used only for the text of the win message) is   *)
(* not modelled.                                                           *)
(***************************************************************************)
EXTENDS Integers, Sequences, FiniteSets, TLC

\* ------------------------------------------------------------------ bounds
\* the boards played on have at most MaxTiles tiles: sizes 1 and 2 (1 and 7
\* tiles; a board of size 3 has 19)
MaxTiles == 7
\* clicks use an apothem in 1..MaxApothem
MaxApothem == 1
\* at most MaxCalls method calls are made on an object
MaxCalls == 2
\* the constructor check (SpecCtor) tries sizes 0..MaxCtorSize
MaxCtorSize == 5
\* the geometry check (SpecGeometry) uses boards of sizes 1..MaxGeoSize and
\* apothems 1..MaxGeoApothem
MaxGeoSize == 3
MaxGeoApothem == 3

VARIABLES
    size,                       \* self.size
    mine_count,                 \* self.mine_count
    row_count,                  \* self.row_count
    cell_count_in_row,          \* self.cell_count_in_row (0-indexed list, here 1-indexed)
    grid,                       \* self.grid: position <<x, y>> -> tile
    mines_have_been_generated,  \* self.mines_have_been_generated
    raised,                     \* the exception that left the last call, or "none"
    calls,                      \* the callbacks the last call invoked, in order
    shown,                      \* the grid each of those callbacks was invoked on
    verdict,                    \* the branch restart_if_game_is_over took in the last call
    evalGrid,                   \* the grid that restart_if_game_is_over inspected
    last,                       \* the last call: method and the position it resolved
                                \* (and what it returned, for a method that returns)
    ncalls,                     \* the number of method calls made so far
    queue,                      \* reveal_mines_from, while it runs: its local queue
    complete                    \* reveal_mines_from, while it runs: its local complete

vars == <<size, mine_count, row_count, cell_count_in_row, grid,
          mines_have_been_generated, raised, calls, shown, verdict, evalGrid,
          last, ncalls, queue, complete>>

\* ------------------------------------------------------------------ helpers
\* Python's None, for an omitted optional argument
None == 0 - 1

Min(a, b) == IF a < b THEN a ELSE b

Range(s) == {s[i] : i \in 1..Len(s)}

\* The per-cell data holder (tile.py): three bits.
NewTile == [has_mine |-> FALSE, is_revealed |-> FALSE, has_flag |-> FALSE]

\* Tile.reveal(): one-way transition to revealed
reveal(g, pos) == [g EXCEPT ![pos].is_revealed = TRUE]

\* Tile.change_into_mine(): one-way transition to mine
change_into_mine(g, pos) == [g EXCEPT ![pos].has_mine = TRUE]

\* Tile.set_flag() / Tile.unset_flag()
set_flag(g, pos) == [g EXCEPT ![pos].has_flag = TRUE]

unset_flag(g, pos) == [g EXCEPT ![pos].has_flag = FALSE]

\* Tile.can_toggle_flag(): false once revealed
can_toggle_flag(g, pos) == ~g[pos].is_revealed

\* a call of redraw() or show_alert(): which one, and the grid at that moment
Callback(name, b) == [name |-> name, grid |-> b.grid]

\* ------------------------------------------------------------------ geometry
\* the total number of tiles, without the one tile left blank
highest_possible_mine_count_is_tile_count(s) == 3 * s * s - 3 * s + 1

\* total tiles minus one
highest_possible_mine_count_for_size(s) ==
    LET total_tile_count == 3 * s * s - 3 * s + 1
    IN  total_tile_count - 1

\* the row lengths __init_game computes for a size
RowLengths(s) ==
    [i \in 1..(2 * s - 1) |-> s + Min(i - 1, 2 * s - 2 - (i - 1))]

\* b is a board record: the fields of self
\* all (x, y) of the grid, from row_count and cell_count_in_row
all_valid_coords(b) ==
    UNION {{<<field_x, field_y>> : field_x \in 0..(b.cell_count_in_row[field_y + 1] - 1)} :
             field_y \in 0..(b.row_count - 1)}

has_tile(b, field_x, field_y) ==
    /\ 0 <= field_y
    /\ field_y < b.row_count
    /\ 0 <= field_x
    /\ field_x < b.cell_count_in_row[field_y + 1]

\* keep the positions of a list that are tiles, in order
trim_tiles(b, positions) ==
    SelectSeq(positions, LAMBDA pos : has_tile(b, pos[1], pos[2]))

\* an adjacency that treats the centre row like the rows above it
adjacent_tiles_without_centre_row(b, field_x, field_y) ==
    LET base == << <<field_x, field_y + 1>>, <<field_x, field_y - 1>>,
                   <<field_x + 1, field_y>>, <<field_x - 1, field_y>> >>
        bend == IF field_y <= b.size - 1
                THEN << <<field_x + 1, field_y + 1>>, <<field_x - 1, field_y - 1>> >>
                ELSE << <<field_x + 1, field_y - 1>>, <<field_x - 1, field_y + 1>> >>
    IN  trim_tiles(b, base \o bend)

\* an adjacency without the left-hand neighbour of the same row
adjacent_tiles_without_left(b, field_x, field_y) ==
    LET base == << <<field_x, field_y + 1>>, <<field_x, field_y - 1>>,
                   <<field_x + 1, field_y>> >>
        bend == IF field_y < b.size - 1
                THEN << <<field_x + 1, field_y + 1>>, <<field_x - 1, field_y - 1>> >>
                ELSE IF field_y = b.size - 1
                THEN << <<field_x - 1, field_y + 1>>, <<field_x - 1, field_y - 1>> >>
                ELSE << <<field_x + 1, field_y - 1>>, <<field_x - 1, field_y + 1>> >>
    IN  trim_tiles(b, base \o bend)

adjacent_tiles(b, field_x, field_y) ==
    LET base == << <<field_x, field_y + 1>>, <<field_x, field_y - 1>>,
                   <<field_x + 1, field_y>>, <<field_x - 1, field_y>> >>
        bend == IF field_y < b.size - 1
                THEN << <<field_x + 1, field_y + 1>>, <<field_x - 1, field_y - 1>> >>
                ELSE IF field_y = b.size - 1
                THEN << <<field_x - 1, field_y + 1>>, <<field_x - 1, field_y - 1>> >>
                ELSE << <<field_x + 1, field_y - 1>>, <<field_x - 1, field_y + 1>> >>
    IN  trim_tiles(b, base \o bend)

adjacent_mine_count(b, field_x, field_y) ==
    LET adj == adjacent_tiles(b, field_x, field_y)
    IN  Cardinality({i \in 1..Len(adj) : b.grid[adj[i]].has_mine})

total_flag_count(b) ==
    Cardinality({pos \in all_valid_coords(b) : b.grid[pos].has_flag})

\* a limit that lets one flag too many through
flag_limit_reached_one_late(b) == total_flag_count(b) > b.mine_count

flag_limit_reached(b) == total_flag_count(b) >= b.mine_count

\* ------------------------------------------------------------------ construction
\* __init_game: the fields are assigned BEFORE the mine count is validated.
\* The result is [self, raised].
init_game(b, s, m) ==
    LET b1 == [b EXCEPT !.size = s, !.mine_count = m]
    IN  IF m > highest_possible_mine_count_for_size(s)
        THEN [self |-> b1, raised |-> "Exception"]
        ELSE LET rc  == 2 * s - 1
                 ccr == RowLengths(s)
                 b2  == [b1 EXCEPT !.row_count = rc, !.cell_count_in_row = ccr]
             IN  [self |-> [b2 EXCEPT
                              !.grid = [pos \in all_valid_coords(b2) |-> NewTile],
                              !.mines_have_been_generated = FALSE],
                  raised |-> "none"]

\* an object before __init__ has run
Blank ==
    [size |-> 0, mine_count |-> 0, row_count |-> 0, cell_count_in_row |-> <<>>,
     grid |-> <<>>, mines_have_been_generated |-> FALSE]

\* restart_game: a falsy argument (None, but also 0) falls back to the field
restart_game(b, s, m) ==
    LET s1 == IF s = None \/ s = 0 THEN b.size ELSE s
        m1 == IF m = None \/ m = 0 THEN b.mine_count ELSE m
    IN  init_game(b, s1, m1)

\* ------------------------------------------------------------------ mines
\* a generator that forgets to take the clicked position out of the sample
try_generate_mines_keeps_origin(b, field_x, field_y) ==
    IF b.mines_have_been_generated
    THEN {[self |-> b, raised |-> "none"]}
    ELSE {[self |-> [b EXCEPT
                       !.grid = [pos \in DOMAIN b.grid |->
                                   IF pos \in sample
                                   THEN change_into_mine(b.grid, pos)[pos]
                                   ELSE b.grid[pos]],
                       !.mines_have_been_generated = TRUE],
            raised |-> "none"] :
          sample \in {S \in SUBSET all_valid_coords(b) :
                        Cardinality(S) = b.mine_count}}

\* a generator without the guard: every call draws a new sample
try_generate_mines_every_call(b, field_x, field_y) ==
    LET possible_mine_locations == all_valid_coords(b) \ {<<field_x, field_y>>}
    IN  {[self |-> [b EXCEPT
                      !.grid = [pos \in DOMAIN b.grid |->
                                  IF pos \in sample
                                  THEN change_into_mine(b.grid, pos)[pos]
                                  ELSE b.grid[pos]],
                      !.mines_have_been_generated = TRUE],
           raised |-> "none"] :
         sample \in {S \in SUBSET possible_mine_locations :
                       Cardinality(S) = b.mine_count}}

\* try_generate_mines: every result random.sample can produce.
\* The result is [self, raised].
try_generate_mines(b, field_x, field_y) ==
    IF b.mines_have_been_generated
    THEN {[self |-> b, raised |-> "none"]}
    ELSE LET possible_mine_locations == all_valid_coords(b) \ {<<field_x, field_y>>}
         IN  IF b.mine_count > Cardinality(possible_mine_locations) \/ b.mine_count < 0
             THEN {[self |-> b, raised |-> "ValueError"]}
             ELSE {[self |-> [b EXCEPT
                                !.grid = [pos \in DOMAIN b.grid |->
                                            IF pos \in sample
                                            THEN change_into_mine(b.grid, pos)[pos]
                                            ELSE b.grid[pos]],
                                !.mines_have_been_generated = TRUE],
                     raised |-> "none"] :
                   sample \in {S \in SUBSET possible_mine_locations :
                                 Cardinality(S) = b.mine_count}}

\* ------------------------------------------------------------------ cascade
\* a cascade that expands every neighbour, numbered or not
RECURSIVE RevealAdjacent_enqueues_all(_, _, _)
RevealAdjacent_enqueues_all(b, adj, q) ==
    IF adj = <<>>
    THEN [self |-> b, queue |-> q]
    ELSE RevealAdjacent_enqueues_all([b EXCEPT !.grid = reveal(b.grid, Head(adj))],
                                     Tail(adj), Append(q, Head(adj)))

\* the for loop of reveal_mines_from: reveal every adjacent tile, in order,
\* and queue the ones with no adjacent mine
RECURSIVE RevealAdjacent(_, _, _)
RevealAdjacent(b, adj, q) ==
    IF adj = <<>>
    THEN [self |-> b, queue |-> q]
    ELSE LET adj_tile == Head(adj)
             b1 == [b EXCEPT !.grid = reveal(b.grid, adj_tile)]
         IN  RevealAdjacent(b1, Tail(adj),
                            IF adjacent_mine_count(b1, adj_tile[1], adj_tile[2]) = 0
                            THEN Append(q, adj_tile)
                            ELSE q)

\* the while loop of reveal_mines_from
RECURSIVE FloodFill(_, _, _)
FloodFill(b, q, done) ==
    IF q = <<>>
    THEN b
    ELSE IF Head(q) \in Range(done)
    THEN FloodFill(b, Tail(q), done)
    ELSE LET current == Head(q)
             b1 == [b EXCEPT !.grid = reveal(b.grid, current)]
             r  == RevealAdjacent(b1, adjacent_tiles(b1, current[1], current[2]),
                                  Tail(q))
         IN  FloodFill(r.self, r.queue, Append(done, current))

\* a loop that meets an expanded position at the head of the queue and
\* continues without deleting it
CascadeStep_keeps_complete_head(b, q, done) ==
    IF Head(q) \in Range(done)
    THEN [self |-> b, queue |-> q, complete |-> done]
    ELSE LET current == Head(q)
             adj == adjacent_tiles(b, current[1], current[2])
         IN  [self |-> [b EXCEPT !.grid =
                          [pos \in DOMAIN b.grid |->
                             IF pos = current \/ pos \in Range(adj)
                             THEN reveal(b.grid, pos)[pos]
                             ELSE b.grid[pos]]],
              queue |-> Tail(q) \o
                        SelectSeq(adj, LAMBDA adj_tile :
                                    adjacent_mine_count(b, adj_tile[1], adj_tile[2]) = 0),
              complete |-> Append(done, current)]

\* one iteration of the while loop of reveal_mines_from, entered with a
\* non-empty queue q and the list done of expanded positions.  The for loop
\* reveals current's neighbours and appends, in order, those with no adjacent
\* mine (a count that no reveal changes).
CascadeStep(b, q, done) ==
    IF Head(q) \in Range(done)
    THEN [self |-> b, queue |-> Tail(q), complete |-> done]
    ELSE LET current == Head(q)
             adj == adjacent_tiles(b, current[1], current[2])
         IN  [self |-> [b EXCEPT !.grid =
                          [pos \in DOMAIN b.grid |->
                             IF pos = current \/ pos \in Range(adj)
                             THEN reveal(b.grid, pos)[pos]
                             ELSE b.grid[pos]]],
              queue |-> Tail(q) \o
                        SelectSeq(adj, LAMBDA adj_tile :
                                    adjacent_mine_count(b, adj_tile[1], adj_tile[2]) = 0),
              complete |-> Append(done, current)]

reveal_mines_from(b, field_x, field_y) ==
    FloodFill(b, << <<field_x, field_y>> >>, <<>>)

\* ------------------------------------------------------------------ evaluator
\* the bulk reveal at the end of a game: every tile without a flag
RevealUnflagged(b) ==
    [b EXCEPT !.grid = [pos \in DOMAIN b.grid |->
                          IF ~b.grid[pos].has_flag
                          THEN reveal(b.grid, pos)[pos]
                          ELSE b.grid[pos]]]

\* a game end that announces the result and keeps the finished board
GameOver_keeps_board(b, cs, branch, alert) ==
    LET b1 == RevealUnflagged(b)
    IN  [self |-> b1,
         calls |-> cs \o <<Callback("redraw", b1), Callback(alert, b1),
                           Callback("redraw", b1)>>,
         verdict |-> branch, evalGrid |-> b.grid, raised |-> "none"]

\* a game end that restarts the board before it announces the result
GameOver_alerts_after_restart(b, cs, branch, alert) ==
    LET b1 == RevealUnflagged(b)
        r  == restart_game(b1, None, None)
    IN  [self |-> r.self,
         calls |-> cs \o <<Callback("redraw", b1), Callback(alert, r.self),
                           Callback("redraw", r.self)>>,
         verdict |-> branch, evalGrid |-> b.grid, raised |-> r.raised]

\* the tail shared by branches B and C: reveal, redraw, alert, restart, redraw
GameOver(b, cs, branch, alert) ==
    LET b1 == RevealUnflagged(b)
        r  == restart_game(b1, None, None)
    IN  [self |-> r.self,
         calls |-> IF r.raised = "none"
                   THEN cs \o <<Callback("redraw", b1), Callback(alert, b1),
                                Callback("redraw", r.self)>>
                   ELSE cs \o <<Callback("redraw", b1), Callback(alert, b1)>>,
         verdict |-> branch, evalGrid |-> b.grid, raised |-> r.raised]

\* an evaluator that looks for a revealed mine before it looks for a win
restart_if_game_is_over_loss_first(b, cs) ==
    IF ~b.mines_have_been_generated
    THEN [self |-> b, calls |-> Append(cs, Callback("redraw", b)), verdict |-> "A",
          evalGrid |-> b.grid, raised |-> "none"]
    ELSE IF \E pos \in all_valid_coords(b) :
                b.grid[pos].has_mine /\ b.grid[pos].is_revealed
    THEN GameOver(b, cs, "C", "alert_lost")
    ELSE IF \A pos \in all_valid_coords(b) :
                b.grid[pos].has_mine \/ b.grid[pos].is_revealed
    THEN GameOver(b, cs, "B", "alert_won")
    ELSE [self |-> b, calls |-> Append(cs, Callback("redraw", b)), verdict |-> "D",
          evalGrid |-> b.grid, raised |-> "none"]

\* restart_if_game_is_over, entered with the callbacks cs already made.
\* verdict is the branch taken, named as in the source's comment: A, B, C, D.
restart_if_game_is_over(b, cs) ==
    IF ~b.mines_have_been_generated
    THEN [self |-> b, calls |-> Append(cs, Callback("redraw", b)), verdict |-> "A",
          evalGrid |-> b.grid, raised |-> "none"]
    ELSE LET number_of_safe_hidden_tiles ==
                 Cardinality({pos \in all_valid_coords(b) :
                                ~b.grid[pos].has_mine /\ ~b.grid[pos].is_revealed})
             revealed_mine_positions ==
                 {pos \in all_valid_coords(b) :
                    b.grid[pos].has_mine /\ b.grid[pos].is_revealed}
         IN  IF number_of_safe_hidden_tiles = 0
             THEN GameOver(b, cs, "B", "alert_won")
             ELSE IF revealed_mine_positions # {}
             THEN GameOver(b, cs, "C", "alert_lost")
             ELSE [self |-> b, calls |-> Append(cs, Callback("redraw", b)), verdict |-> "D",
                   evalGrid |-> b.grid, raised |-> "none"]

\* ------------------------------------------------------------------ mapper
\* p * sqrt(3) < k, for integers p and k (never equal unless both are 0)
Sqrt3Less(p, k) ==
    IF p >= 0 THEN k > 0 /\ 3 * p * p < k * k
              ELSE k >= 0 \/ 3 * p * p > k * k

\* round((screen_y / (apothem / sqrt(3)) - 2) / 3): the integer n with
\* n - 1/2 < (screen_y * sqrt(3) - 2 * apothem) / (3 * apothem) < n + 1/2,
\* which lies between screen_y - 1 and 0 (screen_y < 0) or -1 and screen_y.
\* The bounds are irrational or odd multiples of the apothem, so no tie occurs.
RoundRow(screen_y, apothem) ==
    CHOOSE n \in (IF screen_y < 0 THEN screen_y - 1 ELSE 0 - 1)..
                 (IF screen_y < 0 THEN 0 ELSE screen_y) :
        /\ Sqrt3Less(0 - 2 * screen_y, 0 - apothem * (6 * n + 1))
        /\ Sqrt3Less(2 * screen_y, apothem * (6 * n + 7))

\* Python's round(num / den) for den > 0: to nearest, ties to even
RoundHalfEven(num, den) ==
    LET n == (2 * num + den) \div (2 * den)
    IN  IF (2 * num + den) % (2 * den) = 0 /\ n % 2 # 0 THEN n - 1 ELSE n

\* screen_coordinates_to_game_position once field_y is known: [raised, x, y].
\* cell_count_in_row[field_y] is a Python list subscript: a negative index
\* counts from the end, and an index outside -len..len-1 raises IndexError.
PositionInRow(b, screen_x, field_y, apothem) ==
    LET len == Len(b.cell_count_in_row)
    IN  IF field_y >= len \/ field_y < 0 - len
        THEN [raised |-> "IndexError", x |-> 0, y |-> field_y]
        ELSE LET index == IF field_y < 0 THEN field_y + len ELSE field_y
                 row_cells == b.cell_count_in_row[index + 1]
                 max_row_count == b.row_count
                 \* field_x = screen_x / apothem - (max_row_count - row_cells + 1)
                 numerator == screen_x - apothem * (max_row_count - row_cells + 1)
             IN  [raised |-> "none",
                  x |-> RoundHalfEven(numerator, 2 * apothem),
                  y |-> field_y]

screen_coordinates_to_game_position(b, screen_x, screen_y, apothem) ==
    PositionInRow(b, screen_x, RoundRow(screen_y, apothem), apothem)

\* int(k / sqrt(3)) for an integer k >= 0: the n >= 0 with
\* n * sqrt(3) <= k < (n + 1) * sqrt(3)
IntDivSqrt3(k) ==
    CHOOSE n \in 0..k : (n = 0 \/ Sqrt3Less(n, k)) /\ ~Sqrt3Less(n + 1, k)

\* game_position_to_screen_coordinates, for a row 0 <= field_y < row_count:
\* <<screen_x, int(screen_y)>>, with screen_y = (field_y * 3 + 2) * apothem / sqrt(3)
game_position_to_screen_coordinates(b, field_x, field_y, apothem) ==
    LET row_cells == b.cell_count_in_row[field_y + 1]
        max_row_count == b.row_count
        screen_x == apothem * (max_row_count - row_cells + 2 * field_x + 1)
    IN  <<screen_x, IntDivSqrt3((field_y * 3 + 2) * apothem)>>

\* ------------------------------------------------------------------ handlers
\* what a handler leaves behind: the object, the exception that left it,
\* the callbacks it made, the evaluator's branch and the grid it inspected,
\* and the call itself: the method and the position <<x, y>> the click resolved
\* to (for restart_game and the constructor, the arguments <<size, mine_count>>)
Result(b, exc, cs, branch, seen, method, x, y) ==
    [self |-> b, raised |-> exc, calls |-> cs, verdict |-> branch,
     evalGrid |-> seen, last |-> [method |-> method, args |-> <<x, y>>]]

Evaluated(r, method, x, y) ==
    Result(r.self, r.raised, r.calls, r.verdict, r.evalGrid, method, x, y)

\* a primary click that generates the mines and evaluates, but never reveals
\* the clicked tile
RevealClicked_leaves_tile_hidden(b, field_x, field_y) ==
    {IF g.raised # "none"
     THEN Result(b, g.raised, <<>>, "none", b.grid, "primary_click", field_x, field_y)
     ELSE Evaluated(restart_if_game_is_over(g.self, <<Callback("redraw", g.self)>>),
                    "primary_click", field_x, field_y) :
     g \in try_generate_mines(b, field_x, field_y)}

\* primary_click past its two guards: generate, reveal, cascade, evaluate
RevealClicked(b, field_x, field_y) ==
    {IF g.raised # "none"
     THEN Result(b, g.raised, <<>>, "none", b.grid, "primary_click", field_x, field_y)
     ELSE LET b1 == [g.self EXCEPT
                       !.grid = reveal(g.self.grid, <<field_x, field_y>>)]
          IN  IF adjacent_mine_count(b1, field_x, field_y) > 0
              THEN Evaluated(restart_if_game_is_over(b1, <<Callback("redraw", b1)>>),
                             "primary_click", field_x, field_y)
              ELSE Evaluated(restart_if_game_is_over(
                                 reveal_mines_from(b1, field_x, field_y), <<>>),
                             "primary_click", field_x, field_y) :
     g \in try_generate_mines(b, field_x, field_y)}

\* a primary click that does not look for a flag
primary_click_ignores_flag(b, at) ==
    IF at.raised # "none" \/ ~has_tile(b, at.x, at.y)
    THEN {Result(b, at.raised, <<>>, "none", b.grid, "primary_click", at.x, at.y)}
    ELSE RevealClicked(b, at.x, at.y)

\* primary_click, from the result `at` of its call of
\* screen_coordinates_to_game_position
primary_click(b, at) ==
    LET field_x == at.x
        field_y == at.y
        Return(exc) == Result(b, exc, <<>>, "none", b.grid, "primary_click",
                              field_x, field_y)
    IN  IF at.raised # "none" THEN {Return(at.raised)}
        ELSE IF ~has_tile(b, field_x, field_y) THEN {Return("none")}
        ELSE IF b.grid[<<field_x, field_y>>].has_flag THEN {Return("none")}
        ELSE RevealClicked(b, field_x, field_y)

\* a secondary click that goes on to the evaluator after the flag-limit alert
secondary_click_evaluates_after_alert(b, at) ==
    LET pos == <<at.x, at.y>>
        Return(exc, cs) == Result(b, exc, cs, "none", b.grid, "secondary_click",
                                  at.x, at.y)
    IN  IF at.raised # "none" THEN Return(at.raised, <<>>)
        ELSE IF ~has_tile(b, at.x, at.y) THEN Return("none", <<>>)
        ELSE IF ~can_toggle_flag(b.grid, pos) THEN Return("none", <<>>)
        ELSE LET b1 == IF b.grid[pos].has_flag
                       THEN [b EXCEPT !.grid = unset_flag(b.grid, pos)]
                       ELSE IF flag_limit_reached(b) THEN b
                       ELSE [b EXCEPT !.grid = set_flag(b.grid, pos)]
                 cs == IF ~b.grid[pos].has_flag /\ flag_limit_reached(b)
                       THEN <<Callback("alert_flag_limit", b)>> ELSE <<>>
             IN  Evaluated(restart_if_game_is_over(b1, cs),
                           "secondary_click", at.x, at.y)

\* secondary_click, from the result `at` of its call of
\* screen_coordinates_to_game_position
secondary_click(b, at) ==
    LET field_x == at.x
        field_y == at.y
        pos == <<field_x, field_y>>
        Return(exc, cs) == Result(b, exc, cs, "none", b.grid, "secondary_click",
                                  field_x, field_y)
    IN  IF at.raised # "none" THEN Return(at.raised, <<>>)
        ELSE IF ~has_tile(b, field_x, field_y) THEN Return("none", <<>>)
        ELSE IF ~can_toggle_flag(b.grid, pos) THEN Return("none", <<>>)
        ELSE IF ~b.grid[pos].has_flag /\ flag_limit_reached(b)
        THEN Return("none", <<Callback("alert_flag_limit", b)>>)
        ELSE LET b1 == IF ~b.grid[pos].has_flag
                       THEN [b EXCEPT !.grid = set_flag(b.grid, pos)]
                       ELSE [b EXCEPT !.grid = unset_flag(b.grid, pos)]
             IN  Evaluated(restart_if_game_is_over(b1, <<>>),
                           "secondary_click", field_x, field_y)

\* ------------------------------------------------------------------ state machine
Self ==
    [size |-> size, mine_count |-> mine_count, row_count |-> row_count,
     cell_count_in_row |-> cell_count_in_row, grid |-> grid,
     mines_have_been_generated |-> mines_have_been_generated]

\* the object becomes r.self, and the rest of r is recorded
Becomes(r) ==
    /\ size' = r.self.size
    /\ mine_count' = r.self.mine_count
    /\ row_count' = r.self.row_count
    /\ cell_count_in_row' = r.self.cell_count_in_row
    /\ grid' = r.self.grid
    /\ mines_have_been_generated' = r.self.mines_have_been_generated
    /\ raised' = r.raised
    /\ calls' = [i \in DOMAIN r.calls |-> r.calls[i].name]
    /\ shown' = [i \in DOMAIN r.calls |-> r.calls[i].grid]
    /\ verdict' = r.verdict
    /\ evalGrid' = r.evalGrid
    /\ last' = r.last
    /\ queue' = <<>>
    /\ complete' = <<>>

\* the object is r.self, and the rest of r is what is recorded
Is(r) ==
    /\ size = r.self.size
    /\ mine_count = r.self.mine_count
    /\ row_count = r.self.row_count
    /\ cell_count_in_row = r.self.cell_count_in_row
    /\ grid = r.self.grid
    /\ mines_have_been_generated = r.self.mines_have_been_generated
    /\ raised = r.raised
    /\ calls = [i \in DOMAIN r.calls |-> r.calls[i].name]
    /\ shown = [i \in DOMAIN r.calls |-> r.calls[i].grid]
    /\ verdict = r.verdict
    /\ evalGrid = r.evalGrid
    /\ last = r.last
    /\ queue = <<>>
    /\ complete = <<>>

Sizes == {s \in 1..MaxTiles : 3 * s * s - 3 * s + 1 <= MaxTiles}


LargestSize == CHOOSE s \in Sizes : \A t \in Sizes : t <= s

Apothems == 1..MaxApothem

\* the pixels a click can land on: the canvas of the largest board, and one
\* more row and column of tiles to its right and below
PixelsX(apothem) == 0..((4 * LargestSize - 1) * apothem)

PixelsY(apothem) == 0..((4 * LargestSize - 2) * apothem)

\* HexGrid(size, mine_count), for every pair the constructor accepts
Init ==
    /\ ncalls = 0
    /\ \E s \in Sizes :
        \E m \in 0..highest_possible_mine_count_for_size(s) :
            Is(Result(init_game(Blank, s, m).self, "none", <<>>, "none",
                      init_game(Blank, s, m).self.grid, "init", s, m))

\* what screen_coordinates_to_game_position makes of the clicks: every pixel
\* of the window, under every apothem (the row is computed once per screen_y)
ClickTargets(b) ==
    UNION {UNION {LET field_y == RoundRow(screen_y, apothem)
                  IN  {PositionInRow(b, screen_x, field_y, apothem) :
                         screen_x \in PixelsX(apothem)} :
                  screen_y \in PixelsY(apothem)} :
           apothem \in Apothems}

PrimaryClick ==
    /\ raised = "none"
    /\ ncalls < MaxCalls
    /\ ncalls' = ncalls + 1
    /\ \E at \in ClickTargets(Self) :
         \E r \in primary_click(Self, at) :
            Becomes(r)

SecondaryClick ==
    /\ raised = "none"
    /\ ncalls < MaxCalls
    /\ ncalls' = ncalls + 1
    /\ \E at \in ClickTargets(Self) :
         Becomes(secondary_click(Self, at))

\* restart_game(size, mine_count): each argument omitted (None) or passed.
\* The caller passes a pair the constructor accepts (the mine count comes from
\* a slider, src/hexgrid.py:94); an omitted size means the current one.
RestartGame ==
    /\ raised = "none"
    /\ ncalls < MaxCalls
    /\ ncalls' = ncalls + 1
    /\ \E s \in {None} \cup Sizes :
         \E m \in {None} \cup
                  (0..highest_possible_mine_count_for_size(IF s = None THEN size ELSE s)) :
            LET r == restart_game(Self, s, m)
            IN  Becomes(Result(r.self, r.raised, <<>>, "none", r.self.grid,
                               "restart_game", s, m))

Next == PrimaryClick \/ SecondaryClick \/ RestartGame

Spec == Init /\ [][Next]_vars

\* ------------------------------------------------------------------ construction alone
\* HexGrid(size, mine_count) for every size up to MaxCtorSize and every mine
\* count up to one more than the size allows
InitCtor ==
    /\ ncalls = 0
    /\ Is(Result(Blank, "none", <<>>, "none", Blank.grid, "new", 0, 0))

Construct ==
    /\ ncalls = 0
    /\ ncalls' = 1
    /\ \E s \in 0..MaxCtorSize :
         \E m \in 0..(highest_possible_mine_count_for_size(s) + 1) :
            LET r == init_game(Self, s, m)
            IN  Becomes(Result(r.self, r.raised, <<>>, "none", r.self.grid,
                               "init", s, m))

NextCtor == Construct

SpecCtor == InitCtor /\ [][NextCtor]_vars

\* ------------------------------------------------------------------ geometry alone
\* the pure methods, called on a board HexGrid(size, 0)
InitGeometry ==
    /\ ncalls = 0
    /\ \E s \in 1..MaxGeoSize :
         Is(Result(init_game(Blank, s, 0).self, "none", <<>>, "none",
                   init_game(Blank, s, 0).self.grid, "init", s, 0))

\* game_position_to_screen_coordinates(field_x, field_y, apothem) on a tile
GamePositionToScreen ==
    /\ raised = "none"
    /\ \E pos \in all_valid_coords(Self) :
         \E apothem \in 1..MaxGeoApothem :
            last' = [method |-> "game_position_to_screen_coordinates",
                     args |-> <<pos[1], pos[2], apothem>>,
                     returned |-> game_position_to_screen_coordinates(
                                      Self, pos[1], pos[2], apothem)]
    /\ UNCHANGED <<size, mine_count, row_count, cell_count_in_row, grid,
                   mines_have_been_generated, raised, calls, shown, verdict,
                   evalGrid, ncalls, queue, complete>>

\* screen_coordinates_to_game_position on the pixel the last call returned,
\* with the same apothem
ScreenToGamePosition ==
    /\ raised = "none"
    /\ last.method = "game_position_to_screen_coordinates"
    /\ LET at == screen_coordinates_to_game_position(
                     Self, last.returned[1], last.returned[2], last.args[3])
       IN  /\ last' = [method |-> "screen_coordinates_to_game_position",
                       args |-> <<last.returned[1], last.returned[2], last.args[3]>>,
                       returned |-> <<at.x, at.y>>]
           /\ raised' = at.raised
    /\ UNCHANGED <<size, mine_count, row_count, cell_count_in_row, grid,
                   mines_have_been_generated, calls, shown, verdict, evalGrid,
                   ncalls, queue, complete>>

\* adjacent_tiles(field_x, field_y) on a tile
AdjacentTiles ==
    /\ raised = "none"
    /\ \E pos \in all_valid_coords(Self) :
         last' = [method |-> "adjacent_tiles", args |-> pos,
                  returned |-> adjacent_tiles(Self, pos[1], pos[2])]
    /\ UNCHANGED <<size, mine_count, row_count, cell_count_in_row, grid,
                   mines_have_been_generated, raised, calls, shown, verdict,
                   evalGrid, ncalls, queue, complete>>

NextGeometry == GamePositionToScreen \/ ScreenToGamePosition \/ AdjacentTiles

SpecGeometry == InitGeometry /\ [][NextGeometry]_vars

\* ------------------------------------------------------------------ the cascade, step by step
\* a board HexGrid(size, mine_count), before reveal_mines_from is called
InitCascade ==
    /\ ncalls = 0
    /\ queue = <<>>
    /\ complete = <<>>
    /\ \E s \in Sizes :
         \E m \in 0..highest_possible_mine_count_for_size(s) :
            /\ size = init_game(Blank, s, m).self.size
            /\ mine_count = init_game(Blank, s, m).self.mine_count
            /\ row_count = init_game(Blank, s, m).self.row_count
            /\ cell_count_in_row = init_game(Blank, s, m).self.cell_count_in_row
            /\ grid = init_game(Blank, s, m).self.grid
            /\ mines_have_been_generated = FALSE
            /\ raised = "none"
            /\ calls = <<>>
            /\ shown = <<>>
            /\ verdict = "none"
            /\ evalGrid = grid
            /\ last = [method |-> "init", args |-> <<s, m>>]

\* reveal_mines_from(origin) is entered, for every origin, on the board with
\* its mines placed: every layout of mine_count mines
CascadeEnter ==
    /\ ncalls = 0
    /\ last.method = "init"
    /\ \E layout \in SUBSET all_valid_coords(Self) :
         \E origin \in all_valid_coords(Self) :
            /\ Cardinality(layout) = mine_count
            /\ grid' = [pos \in DOMAIN grid |->
                          [grid[pos] EXCEPT !.has_mine = pos \in layout]]
            /\ mines_have_been_generated' = TRUE
            /\ last' = [method |-> "reveal_mines_from", args |-> origin]
            /\ queue' = <<origin>>
            /\ complete' = <<>>
    /\ UNCHANGED <<size, mine_count, row_count, cell_count_in_row, raised,
                   calls, shown, verdict, evalGrid, ncalls>>

\* an iteration that finds queue[0] in complete
CascadeSkip ==
    /\ ncalls = 0
    /\ last.method = "reveal_mines_from"
    /\ queue # <<>>
    /\ Head(queue) \in Range(complete)
    /\ queue' = CascadeStep(Self, queue, complete).queue
    /\ complete' = CascadeStep(Self, queue, complete).complete
    /\ grid' = CascadeStep(Self, queue, complete).self.grid
    /\ UNCHANGED <<size, mine_count, row_count, cell_count_in_row,
                   mines_have_been_generated, raised, calls, shown, verdict,
                   evalGrid, last, ncalls>>

\* an iteration that expands queue[0]
CascadeExpand ==
    /\ ncalls = 0
    /\ last.method = "reveal_mines_from"
    /\ queue # <<>>
    /\ Head(queue) \notin Range(complete)
    /\ queue' = CascadeStep(Self, queue, complete).queue
    /\ complete' = CascadeStep(Self, queue, complete).complete
    /\ grid' = CascadeStep(Self, queue, complete).self.grid
    /\ UNCHANGED <<size, mine_count, row_count, cell_count_in_row,
                   mines_have_been_generated, raised, calls, shown, verdict,
                   evalGrid, last, ncalls>>

\* the loop ends on the empty queue, and the method returns
CascadeReturn ==
    /\ ncalls = 0
    /\ last.method = "reveal_mines_from"
    /\ queue = <<>>
    /\ ncalls' = 1
    /\ UNCHANGED <<size, mine_count, row_count, cell_count_in_row, grid,
                   mines_have_been_generated, raised, calls, shown, verdict,
                   evalGrid, last, queue, complete>>

NextCascade == CascadeEnter \/ CascadeSkip \/ CascadeExpand \/ CascadeReturn

\* the loop is synchronous code: an iteration that can run does run
SpecCascade == InitCascade /\ [][NextCascade]_vars /\ WF_vars(NextCascade)

\* ------------------------------------------------------------------ properties
Clicks == {"primary_click", "secondary_click"}

\* the positions of a grid that bear a mine / are revealed / carry a flag
Mines(g) == {pos \in DOMAIN g : g[pos].has_mine}

Revealed(g) == {pos \in DOMAIN g : g[pos].is_revealed}

Flagged(g) == {pos \in DOMAIN g : g[pos].has_flag}

\* the positions of a board of size s, from the row-length formula
PositionsOf(s) ==
    {pos \in (0..(2 * s - 2)) \X (0..(2 * s - 2)) :
        pos[1] < s + Min(pos[2], 2 * s - 2 - pos[2])}

\* C1: whenever the evaluator ran on a board with generated mines, it declared
\* WON (branch B) iff every mine-free tile was revealed, and LOST (branch C)
\* iff at least one mine-bearing tile was revealed.
C1_WonIffSafeRevealed_LostIffMineRevealed ==
    (last.method \in Clicks /\ verdict \in {"B", "C", "D"}) =>
        /\ (verdict = "B") <=> (DOMAIN evalGrid \ Mines(evalGrid) \subseteq Revealed(evalGrid))
        /\ (verdict = "C") <=> (Mines(evalGrid) \cap Revealed(evalGrid) # {})

\* C2: the primary click that finds the mines not yet generated leaves exactly
\* mine_count mines, none of them on the clicked tile, with the mines marked
\* as generated when the evaluator looks; and before generation, for every
\* origin, the layouts try_generate_mines can produce are exactly the
\* mine_count-subsets of the other positions.
C2_Generated ==
    (/\ ~mines_have_been_generated
     /\ last'.method = "primary_click"
     /\ verdict' # "none")
    => /\ Cardinality(Mines(evalGrid')) = mine_count
       /\ last'.args \notin Mines(evalGrid')
       /\ verdict' \in {"B", "C", "D"}
       /\ (verdict' = "D" => mines_have_been_generated')

C2_EverySubset ==
    (~mines_have_been_generated /\ raised = "none" /\ last.method # "new") =>
        \A origin \in all_valid_coords(Self) :
            {Mines(r.self.grid) : r \in try_generate_mines(Self, origin[1], origin[2])}
            = {S \in SUBSET (PositionsOf(size) \ {origin}) : Cardinality(S) = mine_count}

C2_GenerateMines == []C2_EverySubset /\ [][C2_Generated]_vars

\* a first click that placed three mines and left the game running
C2_Witness ==
    /\ ncalls = 1
    /\ last.method = "primary_click"
    /\ verdict = "D"
    /\ mines_have_been_generated
    /\ mine_count = 3
    /\ Cardinality(Mines(grid)) = 3
    /\ last.args \notin Mines(grid)

\* the tiles adjacent to a position, as a set
Adjacent(b, pos) == Range(adjacent_tiles(b, pos[1], pos[2]))

\* the tiles with no adjacent mine
ZeroTiles(b) ==
    {q \in all_valid_coords(b) : adjacent_mine_count(b, q[1], q[2]) = 0}

\* the least set that holds Z and every tile of zeros adjacent to one of its
\* members
RECURSIVE ZeroClosure(_, _, _)
ZeroClosure(b, zeros, Z) ==
    LET more == {q \in zeros \ Z : \E p \in Z : q \in Adjacent(b, p)}
    IN  IF more = {} THEN Z ELSE ZeroClosure(b, zeros, Z \cup more)

\* the origin, the zero-adjacency tiles chained to it, and their neighbours
CascadeRegion(b, origin) ==
    LET zero == ZeroClosure(b, ZeroTiles(b), {origin})
    IN  zero \cup UNION {Adjacent(b, p) : p \in zero}

\* C3: for every mine layout and every origin with no adjacent mine, the
\* cascade reveals exactly the origin, the zero-adjacency tiles chained to it
\* and the neighbours of those tiles, and changes nothing else: as an
\* operation on every board a call is still made on, and in every primary
\* click that cascades.
C3_EveryOrigin ==
    (raised = "none" /\ ncalls < MaxCalls /\ last.method # "new") =>
        \A origin \in all_valid_coords(Self) :
            adjacent_mine_count(Self, origin[1], origin[2]) = 0 =>
                LET after == reveal_mines_from(Self, origin[1], origin[2])
                IN  /\ Revealed(after.grid) = Revealed(grid) \cup CascadeRegion(Self, origin)
                    /\ Mines(after.grid) = Mines(grid)
                    /\ Flagged(after.grid) = Flagged(grid)
                    /\ [after EXCEPT !.grid = grid] = Self

C3_Click ==
    LET seen == [Self EXCEPT !.grid = evalGrid']
    IN  (/\ last'.method = "primary_click"
         /\ verdict' # "none"
         /\ adjacent_mine_count(seen, last'.args[1], last'.args[2]) = 0)
        => /\ Revealed(evalGrid') = Revealed(grid) \cup CascadeRegion(seen, last'.args)
           /\ Flagged(evalGrid') = Flagged(grid)

C3_Cascade == []C3_EveryOrigin /\ [][C3_Click]_vars

\* a click that cascaded over several tiles and stopped at a numbered border
C3_Witness ==
    /\ last.method = "primary_click"
    /\ verdict = "D"
    /\ adjacent_mine_count(Self, last.args[1], last.args[2]) = 0
    /\ \E pos \in Revealed(grid) \ {last.args} :
           adjacent_mine_count(Self, pos[1], pos[2]) > 0
    /\ Revealed(grid) = CascadeRegion(Self, last.args)
    /\ Revealed(grid) # DOMAIN grid \ Mines(grid)

\* C4: in every state the number of flags is at most mine_count.
C4_FlagLimit ==
    (last.method # "new") => total_flag_count(Self) <= mine_count

\* one flag on a one-mine board, and a second one refused
C4_Witness ==
    /\ last.method = "secondary_click"
    /\ calls = <<"alert_flag_limit">>
    /\ mine_count = 1
    /\ total_flag_count(Self) = 1
    /\ ~grid[last.args].has_flag

\* C5: no primary click reveals a tile that was flagged and unrevealed before
\* it: such a tile is still unrevealed when the evaluator looks at the grid.
C5_Click ==
    (last'.method = "primary_click" /\ raised' = "none") =>
        \A pos \in DOMAIN grid :
            (grid[pos].has_flag /\ ~grid[pos].is_revealed) =>
                ~evalGrid'[pos].is_revealed

C5_FlaggedNeverRevealed == [][C5_Click]_vars

\* C6: a click that resolves to a position outside the board returns
\* normally, calls neither callback and changes nothing.
C6_Click ==
    (last'.method \in Clicks /\ ~has_tile(Self, last'.args[1], last'.args[2])) =>
        /\ raised' = "none"
        /\ calls' = <<>>
        /\ UNCHANGED <<grid, mines_have_been_generated, size, mine_count>>

C6_OutsideClickIsNoOp == [][C6_Click]_vars

\* C7: a primary click on a flagged tile, and a secondary click on a revealed
\* tile, change nothing: no tile, no mine generation, no evaluator, no callback.
C7_Click ==
    (/\ last'.method \in Clicks
     /\ has_tile(Self, last'.args[1], last'.args[2])
     /\ \/ last'.method = "primary_click" /\ grid[last'.args].has_flag
        \/ last'.method = "secondary_click" /\ grid[last'.args].is_revealed)
    => /\ UNCHANGED <<size, mine_count, row_count, cell_count_in_row, grid,
                      mines_have_been_generated>>
       /\ raised' = "none"
       /\ calls' = <<>>
       /\ verdict' = "none"

C7_SwallowedClicks == [][C7_Click]_vars

\* a primary click on a flagged tile: the flag stays, no mine is generated
C7_Witness ==
    /\ last.method = "primary_click"
    /\ last.args \in DOMAIN grid
    /\ grid[last.args].has_flag
    /\ ~grid[last.args].is_revealed
    /\ ~mines_have_been_generated
    /\ verdict = "none"
    /\ calls = <<>>

\* C8: max_mine_count(size) = 3 * size^2 - 3 * size (0, 0, 6, 18, 36 for sizes
\* 0..4); the constructor accepts that mine count and builds the board, and
\* rejects one more with the configuration error, building nothing.
C8_MaxMineCount ==
    /\ \A s \in 0..MaxCtorSize :
           highest_possible_mine_count_for_size(s) = 3 * s * s - 3 * s
    /\ [s \in 0..4 |-> highest_possible_mine_count_for_size(s)]
       = [s \in 0..4 |-> CASE s = 0 -> 0 [] s = 1 -> 0 [] s = 2 -> 6
                           [] s = 3 -> 18 [] s = 4 -> 36]
    /\ last.method = "init" =>
           LET s == last.args[1]
               m == last.args[2]
           IN  /\ m = 3 * s * s - 3 * s =>
                      /\ raised = "none"
                      /\ size = s
                      /\ mine_count = m
                      /\ DOMAIN grid = PositionsOf(s)
                      /\ \A pos \in DOMAIN grid : grid[pos] = NewTile
                      /\ ~mines_have_been_generated
               /\ m = 3 * s * s - 3 * s + 1 =>
                      /\ raised = "Exception"
                      /\ mine_count = m
                      /\ grid = Blank.grid

\* HexGrid(3, 18): accepted, with all 19 tiles
C8_Witness ==
    /\ last = [method |-> "init", args |-> <<3, 18>>]
    /\ raised = "none"
    /\ mine_count = 18
    /\ Cardinality(DOMAIN grid) = 19

\* C9: a call in which the evaluator declares WON or LOST leaves a fresh board
\* of the same size and mine count: every tile unrevealed, unflagged and
\* mine-free, and the mines not generated.
C9_Click ==
    verdict' \in {"B", "C"} =>
        /\ raised' = "none"
        /\ size' = size
        /\ mine_count' = mine_count
        /\ row_count' = 2 * size - 1
        /\ DOMAIN grid' = PositionsOf(size)
        /\ \A pos \in DOMAIN grid' : grid'[pos] = NewTile
        /\ ~mines_have_been_generated'

C9_FreshBoardAfterGameOver == [][C9_Click]_vars

\* a lost game (a revealed mine, safe tiles still hidden) replaced by a blank board
C9_Witness ==
    /\ verdict = "C"
    /\ Mines(evalGrid) \cap Revealed(evalGrid) # {}
    /\ (DOMAIN evalGrid \ Mines(evalGrid)) \ Revealed(evalGrid) # {}
    /\ size = 2
    /\ \A pos \in DOMAIN grid : grid[pos] = NewTile
    /\ ~mines_have_been_generated

\* C10: restart_game with both arguments passed, size >= 1 and
\* 0 <= mine_count <= max_mine_count(size), leaves exactly that size and that
\* mine count.
C10_Call ==
    LET s == last'.args[1]
        m == last'.args[2]
    IN  (/\ last'.method = "restart_game"
         /\ s # None /\ m # None
         /\ s >= 1 /\ 0 <= m /\ m <= 3 * s * s - 3 * s)
        => /\ raised' = "none"
           /\ size' = s
           /\ mine_count' = m

C10_ExplicitArgumentsAreUsed == [][C10_Call]_vars

\* C11: a secondary click on a valid, unrevealed tile.  Unflagged, with
\* total_flag_count() >= mine_count: exactly one callback, the flag-limit
\* alert; the tile stays unflagged, nothing else changes, and neither the
\* evaluator nor redraw runs.  Unflagged below the limit: the flag is set, and
\* the evaluator then runs.  Flagged: the flag is cleared, whatever the count,
\* and the evaluator then runs.
C11_Click ==
    (/\ last'.method = "secondary_click"
     /\ has_tile(Self, last'.args[1], last'.args[2])
     /\ ~grid[last'.args].is_revealed)
    => /\ raised' = "none"
       /\ (~grid[last'.args].has_flag /\ total_flag_count(Self) >= mine_count) =>
              /\ calls' = <<"alert_flag_limit">>
              /\ verdict' = "none"
              /\ UNCHANGED <<size, mine_count, row_count, cell_count_in_row, grid,
                             mines_have_been_generated>>
       /\ (~grid[last'.args].has_flag /\ total_flag_count(Self) < mine_count) =>
              /\ evalGrid' = set_flag(grid, last'.args)
              /\ verdict' # "none"
              /\ "alert_flag_limit" \notin Range(calls')
              /\ verdict' \in {"A", "D"} => grid' = evalGrid'
       /\ grid[last'.args].has_flag =>
              /\ evalGrid' = unset_flag(grid, last'.args)
              /\ verdict' # "none"
              /\ "alert_flag_limit" \notin Range(calls')
              /\ verdict' \in {"A", "D"} => grid' = evalGrid'

C11_FlagToggle == [][C11_Click]_vars

\* on a board with as many flags as mines, a secondary
\* click on another hidden tile: the alert, and nothing else
C11_Witness ==
    /\ last.method = "secondary_click"
    /\ calls = <<"alert_flag_limit">>
    /\ verdict = "none"
    /\ size = 2
    /\ last.args \in DOMAIN grid
    /\ ~grid[last.args].has_flag
    /\ ~grid[last.args].is_revealed
    /\ Flagged(grid) # {}
    /\ total_flag_count(Self) >= mine_count

\* a board as __init_game leaves it: every tile blank, the mines not generated
Fresh(b) ==
    /\ ~b.mines_have_been_generated
    /\ \A pos \in DOMAIN b.grid : b.grid[pos] = NewTile

\* C12: on a fresh board with mine_count = max_mine_count(size), the first
\* primary click on any valid tile puts a mine on every other tile, reveals
\* the clicked tile and nothing else, and the evaluator declares WON (alert
\* for a win, none for a loss) and leaves a fresh board.
C12_Click ==
    (/\ Fresh(Self)
     /\ mine_count = 3 * size * size - 3 * size
     /\ last'.method = "primary_click"
     /\ has_tile(Self, last'.args[1], last'.args[2]))
    => /\ raised' = "none"
       /\ Mines(evalGrid') = DOMAIN grid \ {last'.args}
       /\ Revealed(evalGrid') = {last'.args}
       /\ verdict' = "B"
       /\ "alert_won" \in Range(calls')
       /\ "alert_lost" \notin Range(calls')
       /\ Fresh([Self EXCEPT !.grid = grid',
                              !.mines_have_been_generated = mines_have_been_generated'])
       /\ size' = size
       /\ mine_count' = mine_count

C12_OneClickWin == [][C12_Click]_vars

\* HexGrid(2, 6) won by its first click: six mines, one revealed safe tile
C12_Witness ==
    /\ ncalls = 1
    /\ last.method = "primary_click"
    /\ size = 2
    /\ mine_count = 6
    /\ verdict = "B"
    /\ Cardinality(Mines(evalGrid)) = 6
    /\ Revealed(evalGrid) = {last.args}
    /\ Fresh(Self)

\* C13: for every size, every tile (x, y) and every apothem > 0,
\* screen_coordinates_to_game_position applied to what
\* game_position_to_screen_coordinates(x, y, apothem) returned gives (x, y).
C13_Call ==
    (last'.method = "screen_coordinates_to_game_position") =>
        /\ raised' = "none"
        /\ last'.returned = <<last.args[1], last.args[2]>>

C13_RoundTrip == [][C13_Call]_vars

\* the two extra candidates of a tile, by the three cases on y
ExtraCandidates(s, x, y) ==
    CASE y < s - 1 -> {<<x + 1, y + 1>>, <<x - 1, y - 1>>}
      [] y = s - 1 -> {<<x - 1, y + 1>>, <<x - 1, y - 1>>}
      [] y > s - 1 -> {<<x + 1, y - 1>>, <<x - 1, y + 1>>}

\* C14: for every size and every tile (x, y), adjacent_tiles(x, y) is exactly
\* the valid positions among (x,y+1), (x,y-1), (x+1,y), (x-1,y) and the two
\* extra candidates of the case y falls in; it has no duplicate, at most 6
\* elements, never (x, y) itself; and on size 3, adjacent_tiles(1, 1) =
\* {(1,2), (1,0), (2,1), (0,1), (2,2), (0,0)}.
C14_AdjacentTiles ==
    (last.method = "adjacent_tiles") =>
        LET x == last.args[1]
            y == last.args[2]
            got == Range(last.returned)
        IN  /\ got = PositionsOf(size) \cap
                       ({<<x, y + 1>>, <<x, y - 1>>, <<x + 1, y>>, <<x - 1, y>>}
                        \cup ExtraCandidates(size, x, y))
            /\ Cardinality(got) = Len(last.returned)
            /\ Cardinality(got) \in 0..6
            /\ <<x, y>> \notin got
            /\ (size = 3 /\ <<x, y>> = <<1, 1>>) =>
                   got = {<<1, 2>>, <<1, 0>>, <<2, 1>>, <<0, 1>>, <<2, 2>>, <<0, 0>>}

\* adjacent_tiles(1, 1) on a board of size 3: six tiles
C14_Witness ==
    /\ last.method = "adjacent_tiles"
    /\ size = 3
    /\ last.args = <<1, 1>>
    /\ Len(last.returned) = 6

\* C15: mines are generated once per board.  Once mines_have_been_generated is
\* true, try_generate_mines is a no-op for every position, and every click
\* leaves the set of mine-bearing tiles as it was, up to the evaluator and,
\* unless the game ends, after it.  Before generation no tile bears a mine.
\* The mine set changes only in the primary click that generates it, or by a
\* restart (restart_game, or the evaluator ending the game).
C15_NoOp ==
    /\ (mines_have_been_generated /\ raised = "none") =>
           \A origin \in all_valid_coords(Self) :
               try_generate_mines(Self, origin[1], origin[2])
               = {[self |-> Self, raised |-> "none"]}
    /\ (~mines_have_been_generated /\ last.method # "new") => Mines(grid) = {}

C15_Click ==
    /\ (mines_have_been_generated /\ last'.method \in Clicks) =>
           /\ Mines(evalGrid') = Mines(grid)
           /\ verdict' \notin {"B", "C"} =>
                  /\ Mines(grid') = Mines(grid)
                  /\ mines_have_been_generated'
    /\ Mines(grid') # Mines(grid) =>
           \/ /\ ~mines_have_been_generated
              /\ last'.method = "primary_click"
              /\ verdict' # "none"
           \/ last'.method = "restart_game"
           \/ verdict' \in {"B", "C"}

C15_GeneratedOnce == []C15_NoOp /\ [][C15_Click]_vars

\* two primary clicks, each revealing one numbered tile: the first placed the
\* mines, the second found them placed
C15_Witness ==
    /\ ncalls = 2
    /\ last.method = "primary_click"
    /\ verdict = "D"
    /\ mines_have_been_generated
    /\ Cardinality(Revealed(grid)) = 2
    /\ mine_count > 0
    /\ Cardinality(Mines(grid)) = mine_count

\* the alerts among the callbacks of a call
Alerts(cs) == SelectSeq(cs, LAMBDA cb : cb \in {"alert_won", "alert_lost"})

\* C16: every evaluation takes exactly one branch, by this priority: ACTIVE
\* (A) if the mines are not generated; otherwise WON (B) if no mine-free tile
\* is unrevealed, even with a mine revealed; otherwise LOST (C) if a mine is
\* revealed; otherwise ACTIVE (D).  The ACTIVE branches change no state and
\* alert nothing; WON and LOST each make their one alert.  (When the
\* evaluator runs, the mines are generated iff they were before the call or
\* the call is a primary click.)
C16_Click ==
    verdict' # "none" =>
        LET generated == mines_have_been_generated \/ last'.method = "primary_click"
            safe_hidden == (DOMAIN evalGrid' \ Mines(evalGrid')) \ Revealed(evalGrid')
            mine_revealed == Mines(evalGrid') \cap Revealed(evalGrid')
        IN  /\ verdict' = IF ~generated THEN "A"
                          ELSE IF safe_hidden = {} THEN "B"
                          ELSE IF mine_revealed # {} THEN "C"
                          ELSE "D"
            /\ Alerts(calls') = CASE verdict' = "B" -> <<"alert_won">>
                                  [] verdict' = "C" -> <<"alert_lost">>
                                  [] OTHER -> <<>>
            /\ verdict' \in {"A", "D"} =>
                   /\ grid' = evalGrid'
                   /\ mines_have_been_generated' = generated
                   /\ UNCHANGED <<size, mine_count, row_count, cell_count_in_row>>

C16_EvaluatorPriority == [][C16_Click]_vars

\* an evaluation that found every mine-free tile revealed and a mine revealed
\* too, and declared WON
C16_Witness ==
    /\ verdict = "B"
    /\ calls = <<"redraw", "alert_won", "redraw">>
    /\ Mines(evalGrid) \cap Revealed(evalGrid) # {}
    /\ (DOMAIN evalGrid \ Mines(evalGrid)) \subseteq Revealed(evalGrid)

\* C17: when the evaluator declares WON or LOST, the last three callbacks of
\* the call are redraw, the win/loss alert, redraw.  The first two are made on
\* the old board after the bulk reveal: every unflagged tile revealed, no
\* flagged tile revealed by it, flags and mines as the evaluator found them.
\* The last is made on the fresh board the call leaves.  Every evaluation,
\* the two ACTIVE branches included, ends with a redraw made on the board
\* the call leaves.
C17_Click ==
    verdict' # "none" =>
        LET n == Len(calls')
        IN  /\ raised' = "none"
            /\ n >= 1
            /\ calls'[n] = "redraw"
            /\ shown'[n] = grid'
            /\ verdict' \in {"A", "D"} => Alerts(calls') = <<>>
            /\ verdict' \in {"B", "C"} =>
                   /\ n >= 3
                   /\ calls'[n - 2] = "redraw"
                   /\ calls'[n - 1] = (IF verdict' = "B" THEN "alert_won" ELSE "alert_lost")
                   /\ shown'[n - 2] = shown'[n - 1]
                   /\ Revealed(shown'[n - 1])
                      = Revealed(evalGrid') \cup (DOMAIN evalGrid' \ Flagged(evalGrid'))
                   /\ Flagged(shown'[n - 1]) = Flagged(evalGrid')
                   /\ Mines(shown'[n - 1]) = Mines(evalGrid')
                   /\ Revealed(shown'[n - 1]) # {}
                   /\ \A pos \in DOMAIN shown'[n] : shown'[n][pos] = NewTile

C17_CallbackOrder == [][C17_Click]_vars

\* a won game with a flag on a mine: the alert saw every other tile revealed
\* and the flagged one hidden, the last redraw saw the fresh board
C17_Witness ==
    /\ verdict = "B"
    /\ Len(calls) >= 3
    /\ calls[Len(calls) - 1] = "alert_won"
    /\ Flagged(shown[Len(calls) - 1]) # {}
    /\ Revealed(shown[Len(calls) - 1])
       = DOMAIN evalGrid \ Flagged(shown[Len(calls) - 1])
    /\ Revealed(evalGrid) # Revealed(shown[Len(calls) - 1])
    /\ Revealed(shown[Len(calls)]) = {}

\* C18: reveal_mines_from terminates on every board, layout and origin: the
\* queue becomes empty and the method returns.  No position is expanded
\* twice (complete never holds a position twice); an iteration that finds
\* queue[0] in complete only deletes it; any other iteration expands queue[0]:
\* appends it to complete, reveals it and its neighbours.
C18_ExpandedOnce ==
    (last.method = "reveal_mines_from") =>
        /\ Cardinality(Range(complete)) = Len(complete)
        /\ Range(complete) \subseteq DOMAIN grid
        /\ Range(queue) \subseteq DOMAIN grid

C18_Iteration ==
    (last.method = "reveal_mines_from" /\ queue # <<>>) =>
        IF Head(queue) \in Range(complete)
        THEN /\ queue' = Tail(queue)
             /\ complete' = complete
             /\ grid' = grid
        ELSE /\ complete' = Append(complete, Head(queue))
             /\ Len(queue') >= Len(queue) - 1
             /\ Revealed(grid')
                = Revealed(grid) \cup {Head(queue)} \cup Adjacent(Self, Head(queue))

C18_CascadeTerminates ==
    /\ []C18_ExpandedOnce
    /\ [][C18_Iteration]_vars
    /\ (last.method = "reveal_mines_from") ~> (ncalls = 1 /\ queue = <<>>)

\* a cascade that returned after expanding several positions and left tiles
\* hidden
C18_Witness ==
    /\ last.method = "reveal_mines_from"
    /\ ncalls = 1
    /\ queue = <<>>
    /\ Len(complete) >= 3
    /\ Revealed(grid) # DOMAIN grid

\* the loop run step by step ends on the grid FloodFill computes
CascadeAgrees ==
    (last.method = "reveal_mines_from" /\ ncalls = 1) =>
        grid = reveal_mines_from([Self EXCEPT !.grid = [pos \in DOMAIN grid |->
                                      [grid[pos] EXCEPT !.is_revealed = FALSE]]],
                                 last.args[1], last.args[2]).grid

\* C19: the primary click that generates the mines never ends in LOST: when
\* the evaluator looks, neither the clicked tile nor any tile the cascade
\* revealed bears a mine, whatever layout the generator drew.
C19_Click ==
    (/\ ~mines_have_been_generated
     /\ last'.method = "primary_click"
     /\ verdict' # "none")
    => /\ raised' = "none"
       /\ verdict' \in {"B", "D"}
       /\ "alert_lost" \notin Range(calls')
       /\ last'.args \in Revealed(evalGrid')
       /\ Mines(evalGrid') \cap Revealed(evalGrid') = {}

C19_FirstClickIsSafe == [][C19_Click]_vars

\* a first click that cascaded over a board with mines and stopped short of
\* them
C19_Witness ==
    /\ ncalls = 1
    /\ last.method = "primary_click"
    /\ verdict = "D"
    /\ mine_count >= 2
    /\ Cardinality(Mines(grid)) = mine_count
    /\ Cardinality(Revealed(grid)) >= 4
    /\ Mines(grid) \cap Revealed(grid) = {}

\* C20: adjacency is symmetric: for every size and all tiles a and b, b is
\* in adjacent_tiles(a) iff a is in adjacent_tiles(b), also across the centre
\* row, where the two tiles fall under different cases.
C20_AdjacencyIsSymmetric ==
    (last.method = "adjacent_tiles") =>
        \A other \in all_valid_coords(Self) :
            (other \in Range(last.returned))
            <=> (last.args \in Range(adjacent_tiles(Self, other[1], other[2])))

\* a centre-row tile of a board of size 3 with a neighbour in the row below
\* and one in the row above, each listing it in turn
C20_Witness ==
    /\ last.method = "adjacent_tiles"
    /\ size = 3
    /\ last.args[2] = size - 1
    /\ <<last.args[1] - 1, size>> \in Range(last.returned)
    /\ <<last.args[1] - 1, size - 2>> \in Range(last.returned)
    /\ last.args \in Range(adjacent_tiles(Self, last.args[1] - 1, size))
    /\ last.args \in Range(adjacent_tiles(Self, last.args[1] - 1, size - 2))

\* C21: a restart_game that fails with the configuration error leaves the
\* board as it was: size, mine_count, the row layout, the tiles and
\* mines_have_been_generated are those of before the call, so size and
\* mine_count still describe the grid.
C21_Call ==
    (last'.method = "restart_game" /\ raised' # "none") =>
        /\ UNCHANGED <<size, mine_count, row_count, cell_count_in_row, grid,
                       mines_have_been_generated>>
        /\ DOMAIN grid' = PositionsOf(size')

C21_RejectedRestartChangesNothing == [][C21_Call]_vars

====
